---- MODULE Spec2Model ----
(***************************************************************************)
(* Client of the microgrid energy monitor: the session store               *)
(* (store/authStore.js), the App shell with its role-gated navigation      *)
(* (App.js, Navigation), the two dashboards with their pull cycles and the *)
(* push connection (Dashboard.js, ComprehensiveDashboard) and the alerts   *)
(* page (AlertsPageSimple).  The backend is external: its answers are      *)
(* inputs drawn from small sets.  Besides the three components on their    *)
(* own, the module has the login / logout / login round trip of the store, *)
(* App together with the session and the Dashboard it renders, the login   *)
(* form (LoginForm) and the metric cards' getMetricStatus.                 *)
(***************************************************************************)
EXTENDS Integers, FiniteSets, Sequences, TLC

VARIABLES
  \* ---- session store (authStore.js) and App shell (App.js)
  user,             \* state.user: a user record or Null
  token,            \* state.token
  isAuthenticated,  \* state.isAuthenticated
  isLoading,        \* state.isLoading
  error,            \* state.error
  storage,          \* localStorage["auth-storage"]: the persisted text
  loginCalls,       \* every call of login(): its position and its response
  currentView,      \* App's useState('dashboard')
  sessionOp,        \* the store or App operation that ran last
  \* ---- dashboard component (Dashboard.js / ComprehensiveDashboard)
  component,        \* which of the two dashboards is the one mounted
  mounted,          \* "new" (rendered, effects not run), "mounted", "unmounted"
  entities,         \* the data state: which pull cycle each entity comes from
  loading,          \* useState(true)
  dashError,        \* the component's error state
  cycles,           \* every call of fetchData: its position, its requests, and
                    \* whether it was made with an error in the state
  sockets,          \* every WebSocket connectWebSocket created, in order
  reconnectTimers,  \* pending setTimeout(connectWebSocket, 5000) timers
  wsState,          \* the component's ws state (index into sockets, 0 = null)
  dashOp,           \* the dashboard operation that ran last
  \* ---- alerts page (AlertsPageSimple) and the backend's alert table
  backendAlerts,    \* backend: alert id -> resolved
  alerts,           \* client: alert id -> "absent" | "active" | "resolved"
  alertsLoading,
  alertsError,
  fetches,          \* every call of fetchAlerts: its position and snapshot
  resolves,         \* every call of handleResolveAlert
  alertsOp,         \* the alerts page operation that ran last
  \* ---- the login / logout / login round trip
  trip,             \* its input, its position and the session of the first login
  \* ---- login form (LoginForm)
  form,             \* formData (username, password) and selectedRole, and
                    \* what they were at the last submission
  \* ---- metric cards (getMetricStatus of the two dashboards)
  metric            \* a reading's type and value, and the status each one gives

sessionVars == <<user, token, isAuthenticated, isLoading, error, storage,
                 loginCalls, currentView, sessionOp>>
dashVars == <<component, mounted, entities, loading, dashError, cycles,
              sockets, reconnectTimers, wsState, dashOp>>
alertVars == <<backendAlerts, alerts, alertsLoading, alertsError, fetches,
               resolves, alertsOp>>
tripVars == <<trip>>
formVars == <<form>>
metricVars == <<metric>>
vars == <<sessionVars, dashVars, alertVars, tripVars, formVars, metricVars>>

(***************************************************************************)
(* Bounds of the model.                                                    *)
(***************************************************************************)
MaxLogins == 2      \* calls of login() in one run
MaxCycles == 2      \* calls of fetchData in one run
MaxSockets == 2     \* WebSockets created in one run
MaxFetches == 3     \* calls of fetchAlerts in one run
MaxResolves == 1    \* calls of handleResolveAlert in one run
MaxAlerts == 1      \* alerts in the backend's table
MaxPulls == 3       \* calls of fetchData in one run of App with its dashboard

Null == [isNull |-> TRUE]      \* JavaScript null, for record-valued state
NoString == "null"             \* JavaScript null, for string-valued state

(***************************************************************************)
(* Session store: store/authStore.js                                       *)
(***************************************************************************)

\* Role names: the two of the hierarchy, one the hierarchy does not know,
\* a user object without a role ("undefined"), and two names that every
\* object literal inherits from Object.prototype.
Roles == {"operator", "admin", "viewer", "undefined", "constructor", "toString"}

\* roleHierarchy[name] for roleHierarchy = { operator: 1, admin: 2 }: a
\* property lookup, which also finds what the literal inherits from
\* Object.prototype (a function object) and is undefined for the rest.  A
\* function object is given by the rank of its source text in string order:
\* "function Object() {...}" < "function toString() {...}".
roleHierarchy(name) ==
  CASE name = "operator" -> [t |-> "number", v |-> 1]
    [] name = "admin" -> [t |-> "number", v |-> 2]
    [] name = "constructor" -> [t |-> "object", v |-> 1]
    [] name = "toString" -> [t |-> "object", v |-> 2]
    [] OTHER -> [t |-> "undefined", v |-> 0]

\* JavaScript's a >= b: numbers compare as numbers; two objects are both
\* converted to their strings and compare as strings; undefined, and an
\* object against a number, convert to NaN and every comparison is false.
JsGreaterEq(a, b) ==
  CASE a.t = "number" /\ b.t = "number" -> a.v >= b.v
    [] a.t = "object" /\ b.t = "object" -> a.v >= b.v
    [] OTHER -> FALSE

\* The comparison the other way round.
hasRoleOfReversed(u, requiredRole) ==
  IF u = Null THEN FALSE
  ELSE JsGreaterEq(roleHierarchy(requiredRole), roleHierarchy(u.role))

hasRoleOf(u, requiredRole) ==
  IF u = Null THEN FALSE
  ELSE JsGreaterEq(roleHierarchy(u.role), roleHierarchy(requiredRole))

\* hasRole(requiredRole) of the store: reads get().user
hasRole(requiredRole) == hasRoleOf(user, requiredRole)

\* A partialize that leaves the token out of the persisted copy.
partializeWithoutToken(u, t, a) ==
  [user |-> u, token |-> NoString, isAuthenticated |-> a]

\* partialize: what persist writes to localStorage after every set()
partialize(u, t, a) == [user |-> u, token |-> t, isAuthenticated |-> a]

\* JSON.stringify of what persist stores under "auth-storage": the
\* partialized state and the version.  null stays null, and a property whose
\* value is undefined (a user without a role) is left out of the text.
JSONStringify(part) ==
  [ state |-> [ user |-> IF part.user = Null THEN Null
                         ELSE IF part.user.role = "undefined"
                              THEN [username |-> part.user.username]
                              ELSE part.user,
                token |-> part.token,
                isAuthenticated |-> part.isAuthenticated ],
    version |-> 0 ]

\* JSON.parse(text).state: a property the text does not have reads as undefined.
JSONParse(text) ==
  [ user |-> IF text.state.user = Null THEN Null
             ELSE [ username |-> text.state.user.username,
                    role |-> IF "role" \in DOMAIN text.state.user
                             THEN text.state.user.role ELSE "undefined" ],
    token |-> text.state.token,
    isAuthenticated |-> text.state.isAuthenticated ]

MockToken == "mock-jwt-token"
BackendTokens == {"jwt-1"}

\* mockLogin's mockUser (id, email and is_active add nothing to the role)
MockUser(role) ==
  [username |-> IF role = "admin" THEN "admin" ELSE "operator", role |-> role]

\* The user objects the backend may answer with.
BackendUsers ==
  { [username |-> "alice", role |-> "operator"],
    [username |-> "root", role |-> "admin"],
    [username |-> "guest", role |-> "viewer"],
    [username |-> "anon", role |-> "undefined"] }

\* What a POST /auth/login can come back with: a 2xx with {user,
\* access_token}, a non-2xx, a body response.json() rejects, or no answer at
\* all (fetch rejects).
NoResponse == [kind |-> "none"]
LoginResponses ==
  { [kind |-> "ok", user |-> u, access_token |-> t] :
      u \in BackendUsers, t \in BackendTokens }
  \cup { [kind |-> "notOk"], [kind |-> "badBody"], [kind |-> "networkError"] }

\* error.message of what login's catch block catches
LoginErrorMessage(resp) ==
  CASE resp.kind = "notOk" -> "Invalid credentials"
    [] resp.kind = "badBody" -> "Unexpected token"
    [] OTHER -> "Failed to fetch"

LoginIds == 1..MaxLogins
NoCall == [st |-> "none", resp |-> NoResponse]

InitSession ==
  /\ user = Null
  /\ token = NoString
  /\ isAuthenticated = FALSE
  /\ isLoading = FALSE
  /\ error = NoString
  /\ storage = JSONStringify(partialize(Null, NoString, FALSE))
  /\ loginCalls = [i \in LoginIds |-> NoCall]
  /\ currentView = "dashboard"
  /\ sessionOp = "init"

\* set(partial) of the persisted store: the merged state, and its
\* partialized copy written to storage in the same call.
SetSession(u, t, a, l, e) ==
  /\ user' = u
  /\ token' = t
  /\ isAuthenticated' = a
  /\ isLoading' = l
  /\ error' = e
  /\ storage' = JSONStringify(partialize(u, t, a))

\* login's set() before the request: line 14.
LoginCallState == SetSession(user, token, isAuthenticated, TRUE, NoString)

\* login(username, password), up to its await of fetch.
LoginBody(i) ==
  /\ loginCalls[i].st = "none"
  /\ \A j \in LoginIds : j < i => loginCalls[j].st # "none"
  /\ LoginCallState
  /\ loginCalls' = [loginCalls EXCEPT ![i] = [st |-> "sent", resp |-> NoResponse]]
  /\ sessionOp' = "login"
  /\ UNCHANGED currentView

Login(i) ==
  LoginBody(i) /\ UNCHANGED <<dashVars, alertVars, tripVars, formVars, metricVars>>

\* The backend's answer (or the network's failure) on its way to the client.
LoginRespond(i, resp) ==
  /\ loginCalls[i].st = "sent"
  /\ loginCalls' = [loginCalls EXCEPT ![i] = [st |-> "answered", resp |-> resp]]
  /\ sessionOp' = "respond"
  /\ UNCHANGED <<user, token, isAuthenticated, isLoading, error, storage, currentView>>
  /\ UNCHANGED <<dashVars, alertVars, tripVars, formVars, metricVars>>

\* A success path that stores the user but not the token.
LoginSuccessWithoutToken(resp) ==
  SetSession(resp.user, token, TRUE, FALSE, NoString)

\* login after its awaits, response ok and parsed: lines 29-39.
LoginSuccessState(resp) ==
  SetSession(resp.user, resp.access_token, TRUE, FALSE, NoString)

\* login's catch block: lines 40-45.
LoginFailureState(resp) ==
  SetSession(user, token, isAuthenticated, FALSE, LoginErrorMessage(resp))

LoginSettleBody(i) ==
  /\ loginCalls[i].st = "answered"
  /\ LET resp == loginCalls[i].resp IN
       IF resp.kind = "ok"
       THEN /\ LoginSuccessState(resp)
            /\ loginCalls' = [loginCalls EXCEPT ![i] = [st |-> "success", resp |-> NoResponse]]
            /\ sessionOp' = "loginSuccess"
       ELSE /\ LoginFailureState(resp)
            /\ loginCalls' = [loginCalls EXCEPT ![i] = [st |-> "failure", resp |-> NoResponse]]
            /\ sessionOp' = "loginFailure"
  /\ UNCHANGED currentView

LoginSettle(i) ==
  LoginSettleBody(i) /\ UNCHANGED <<dashVars, alertVars, tripVars, formVars, metricVars>>

\* A logout that forgets the token.
LogoutKeepingToken == SetSession(Null, token, FALSE, isLoading, NoString)

\* logout(): lines 49-56 (isLoading is not among the fields it sets).
LogoutState == SetSession(Null, NoString, FALSE, isLoading, NoString)

Logout ==
  /\ LogoutState
  /\ sessionOp' = "logout"
  /\ UNCHANGED <<loginCalls, currentView>>
  /\ UNCHANGED <<dashVars, alertVars, tripVars, formVars, metricVars>>

\* clearError(): lines 58-60.
ClearError ==
  /\ SetSession(user, token, isAuthenticated, isLoading, NoString)
  /\ sessionOp' = "clearError"
  /\ UNCHANGED <<loginCalls, currentView>>
  /\ UNCHANGED <<dashVars, alertVars, tripVars, formVars, metricVars>>

\* The five fields mockLogin(role = 'operator') sets: lines 63-78.
MockSession(arg) ==
  LET role == IF arg = "undefined" THEN "operator" ELSE arg IN
  [ user |-> MockUser(role), token |-> MockToken, isAuthenticated |-> TRUE,
    isLoading |-> FALSE, error |-> NoString ]

\* mockLogin(role = 'operator'): lines 63-79.
MockLoginState(arg) ==
  LET s == MockSession(arg) IN
  SetSession(s.user, s.token, s.isAuthenticated, s.isLoading, s.error)

MockLogin(arg) ==
  /\ MockLoginState(arg)
  /\ sessionOp' = "mockLogin"
  /\ UNCHANGED <<loginCalls, currentView>>
  /\ UNCHANGED <<dashVars, alertVars, tripVars, formVars, metricVars>>

(***************************************************************************)
(* App shell and navigation: App.js, Navigation, LoginForm                 *)
(***************************************************************************)

Views == {"dashboard", "analytics", "alerts", "settings"}

\* Navigation.navigationItems: the roles of each item.
navigationItems ==
  [ dashboard |-> {"operator", "admin"},
    analytics |-> {"operator", "admin"},
    alerts |-> {"operator", "admin"},
    settings |-> {"admin"} ]

\* filteredNavItems: items.filter(item => item.roles.some(role => hasRole(role)))
filteredNavItemsOf(u) ==
  { v \in Views : \E role \in navigationItems[v] : hasRoleOf(u, role) }

filteredNavItems == filteredNavItemsOf(user)

\* What App returns: the spinner, the login form, or the navigation with
\* renderCurrentView() (every currentView has a case of its own).
Rendered ==
  IF isLoading THEN "spinner"
  ELSE IF ~isAuthenticated THEN "login"
  ELSE currentView

NavigationShown == ~isLoading /\ isAuthenticated

\* A click on a rendered NavItem: setCurrentView(item.id).
NavigateBody(v) ==
  /\ NavigationShown
  /\ v \in filteredNavItems
  /\ currentView' = v
  /\ sessionOp' = "navigate"
  /\ UNCHANGED <<user, token, isAuthenticated, isLoading, error, storage, loginCalls>>

Navigate(v) ==
  NavigateBody(v) /\ UNCHANGED <<dashVars, alertVars, tripVars, formVars, metricVars>>

\* Dashboard's "view alerts" button: onNavigateToAlerts.
NavigateToAlerts ==
  /\ NavigationShown
  /\ currentView = "dashboard"
  /\ currentView' = "alerts"
  /\ sessionOp' = "navigate"
  /\ UNCHANGED <<user, token, isAuthenticated, isLoading, error, storage, loginCalls>>
  /\ UNCHANGED <<dashVars, alertVars, tripVars, formVars, metricVars>>

\* Navigation.handleLogout: the Sign Out button.
HandleLogoutBody ==
  /\ NavigationShown
  /\ LogoutState
  /\ sessionOp' = "handleLogout"
  /\ UNCHANGED <<loginCalls, currentView>>

HandleLogout ==
  HandleLogoutBody /\ UNCHANGED <<dashVars, alertVars, tripVars, formVars, metricVars>>

DemoRoles == {"operator", "admin"}

\* LoginForm.handleSubmit: clearError(); mockLogin(selectedRole).
HandleSubmitBody(selectedRole) ==
  /\ Rendered = "login"
  /\ MockLoginState(selectedRole)
  /\ sessionOp' = "handleSubmit"
  /\ UNCHANGED <<loginCalls, currentView>>

HandleSubmit(selectedRole) ==
  HandleSubmitBody(selectedRole) /\ UNCHANGED <<dashVars, alertVars, tripVars, formVars, metricVars>>

\* A page reload: the store is created again and rehydrated from storage,
\* App's state starts over, and the calls in flight die with the page.
ReloadBody ==
  /\ LET persisted == JSONParse(storage) IN
       SetSession(persisted.user, persisted.token, persisted.isAuthenticated,
                  FALSE, NoString)
  /\ loginCalls' = [i \in LoginIds |->
                      IF loginCalls[i].st \in {"sent", "answered"}
                      THEN [st |-> "aborted", resp |-> NoResponse]
                      ELSE loginCalls[i]]
  /\ currentView' = "dashboard"
  /\ sessionOp' = "reload"

Reload ==
  ReloadBody /\ UNCHANGED <<dashVars, alertVars, tripVars, formVars, metricVars>>

NextSession ==
  \/ \E i \in LoginIds : Login(i)
  \/ \E i \in LoginIds, resp \in LoginResponses : LoginRespond(i, resp)
  \/ \E i \in LoginIds : LoginSettle(i)
  \/ Logout
  \/ ClearError
  \/ \E arg \in Roles : MockLogin(arg)
  \/ \E v \in Views : Navigate(v)
  \/ NavigateToAlerts
  \/ HandleLogout
  \/ \E r \in DemoRoles : HandleSubmit(r)
  \/ Reload

(***************************************************************************)
(* Dashboards: components/Dashboard.js and ComprehensiveDashboard          *)
(***************************************************************************)

Components == {"Dashboard", "ComprehensiveDashboard"}

\* The five requests of one pull cycle, by the entity each one feeds (in
\* ComprehensiveDashboard: systemStatus, sensorReadings, alerts,
\* efficiencyData, forecastData).
Requests == {"sensorData", "latestData", "alerts", "systemStatus", "analytics"}
Entities == Requests \cup {"lastUpdate"}

\* The methods of the apiService object exported by services/api.js.
apiServiceMethods ==
  {"getSensorData", "getLatestSensorData", "postSensorData", "getAlerts",
   "resolveAlert", "getSystemStatus", "getAnalytics", "healthCheck"}

\* The methods fetchData calls while it builds the argument of Promise.all.
CalledMethods(comp) ==
  IF comp = "Dashboard"
  THEN {"getSensorData", "getLatestSensorData", "getAlerts", "getSystemStatus",
        "getAnalytics"}
  ELSE {"get"}

\* A call of a method apiService does not have throws a TypeError before any
\* request is made: fetchData goes straight to its catch block.
ThrowsBeforeAwait(comp) == ~(CalledMethods(comp) \subseteq apiServiceMethods)

FetchErrorMessage == "Failed to fetch data. Please ensure the backend is running."

CycleIds == DOMAIN cycles
NoCycle == [st |-> "none", ok |-> {}, onError |-> FALSE]
SocketIds == 1..MaxSockets

InitDashboard ==
  /\ component \in Components
  /\ mounted = "new"
  /\ entities = [e \in Entities |-> 0]
  /\ loading = TRUE
  /\ dashError = NoString
  /\ cycles = [c \in 1..MaxCycles |-> NoCycle]
  /\ sockets = <<>>
  /\ reconnectTimers = 0
  /\ wsState = 0
  /\ dashOp = "init"

\* A state setter of the component: React drops the update of a component
\* that is no longer mounted.
SetState(m, old, new) == IF m = "unmounted" THEN old ELSE new

CallsOfFetchData == Cardinality({c \in CycleIds : cycles[c].st # "none"})

\* A fetchData that leaves the error of an earlier cycle in place.
FetchDataCallKeepingError(c, m) ==
  /\ cycles[c].st = "none"
  /\ \A d \in CycleIds : d < c => cycles[d].st # "none"
  /\ cycles' = [cycles EXCEPT ![c] = [st |-> "pending", ok |-> {},
                                      onError |-> dashError # NoString]]
  /\ UNCHANGED <<dashError, loading, entities>>

\* fetchData up to its first await: setError(null) and the five requests, or
\* the catch and finally blocks when building the requests throws.
FetchDataCall(c, m) ==
  /\ cycles[c].st = "none"
  /\ \A d \in CycleIds : d < c => cycles[d].st # "none"
  /\ IF ThrowsBeforeAwait(component)
     THEN /\ cycles' = [cycles EXCEPT ![c] = [st |-> "failed", ok |-> {},
                                           onError |-> dashError # NoString]]
          /\ dashError' = SetState(m, dashError, FetchErrorMessage)
          /\ loading' = SetState(m, loading, FALSE)
     ELSE /\ cycles' = [cycles EXCEPT ![c] = [st |-> "pending", ok |-> {},
                                      onError |-> dashError # NoString]]
          /\ dashError' = SetState(m, dashError, NoString)
          /\ UNCHANGED loading
  /\ UNCHANGED entities

\* A fetchData that drops results older than those in state.
ApplyCycleUnlessOlder(c) ==
  /\ entities' = SetState(mounted, entities,
                          IF \E e \in Entities : entities[e] > c
                          THEN entities ELSE [e \in Entities |-> c])
  /\ loading' = SetState(mounted, loading, FALSE)
  /\ UNCHANGED dashError

\* fetchData after Promise.all has resolved: the six setters, then finally.
ApplyCycle(c) ==
  /\ entities' = SetState(mounted, entities, [e \in Entities |-> c])
  /\ loading' = SetState(mounted, loading, FALSE)
  /\ UNCHANGED dashError

\* A catch block that keeps what the fulfilled requests brought.
FailCycleKeepingFulfilled(c) ==
  /\ dashError' = SetState(mounted, dashError, FetchErrorMessage)
  /\ loading' = SetState(mounted, loading, FALSE)
  /\ entities' = SetState(mounted, entities,
                          [e \in Entities |-> IF e \in cycles[c].ok THEN c ELSE entities[e]])

\* A fetchData without its finally block on the failure path.
FailCycleWithoutFinally(c) ==
  /\ dashError' = SetState(mounted, dashError, FetchErrorMessage)
  /\ UNCHANGED <<loading, entities>>

\* fetchData's catch and finally blocks after Promise.all has rejected.
FailCycle(c) ==
  /\ dashError' = SetState(mounted, dashError, FetchErrorMessage)
  /\ loading' = SetState(mounted, loading, FALSE)
  /\ UNCHANGED entities

\* One request of cycle c is answered with a 2xx.  When it is the last of the
\* five, Promise.all resolves and fetchData runs to its end.
RequestFulfilled(c, r) ==
  /\ cycles[c].st = "pending"
  /\ r \notin cycles[c].ok
  /\ LET ok == cycles[c].ok \cup {r} IN
       IF ok = Requests
       THEN /\ ApplyCycle(c)
            /\ cycles' = [cycles EXCEPT ![c].st = "applied", ![c].ok = ok]
            /\ dashOp' = "applied"
       ELSE /\ cycles' = [cycles EXCEPT ![c].ok = ok]
            /\ dashOp' = "fulfilled"
            /\ UNCHANGED <<entities, loading, dashError>>
  /\ UNCHANGED <<component, mounted, sockets, reconnectTimers, wsState>>
  /\ UNCHANGED <<sessionVars, alertVars, tripVars, formVars, metricVars>>

\* One request of cycle c fails (non-2xx, network error, the 10 s timeout):
\* Promise.all rejects at once, whatever the other four did.
RequestRejected(c, r) ==
  /\ cycles[c].st = "pending"
  /\ r \notin cycles[c].ok
  /\ FailCycle(c)
  /\ cycles' = [cycles EXCEPT ![c].st = "failed"]
  /\ dashOp' = "rejected"
  /\ UNCHANGED <<component, mounted, sockets, reconnectTimers, wsState>>
  /\ UNCHANGED <<sessionVars, alertVars, tripVars, formVars, metricVars>>

\* The await of Promise.all returns: the five requests of cycle c have all
\* been fulfilled, and fetchData runs to its end.
PromiseAllResolves(c) ==
  /\ cycles[c].st = "pending"
  /\ ApplyCycle(c)
  /\ cycles' = [cycles EXCEPT ![c].st = "applied", ![c].ok = Requests]
  /\ dashOp' = "applied"
  /\ UNCHANGED <<component, mounted, sockets, reconnectTimers, wsState>>
  /\ UNCHANGED <<sessionVars, alertVars, tripVars, formVars, metricVars>>

\* The await of Promise.all throws: a request of cycle c has failed.
PromiseAllRejects(c) ==
  /\ cycles[c].st = "pending"
  /\ FailCycle(c)
  /\ cycles' = [cycles EXCEPT ![c].st = "failed"]
  /\ dashOp' = "rejected"
  /\ UNCHANGED <<component, mounted, sockets, reconnectTimers, wsState>>
  /\ UNCHANGED <<sessionVars, alertVars, tripVars, formVars, metricVars>>

\* connectWebSocket: new WebSocket(wsUrl), the four handlers, setWs.
ConnectWebSocket(m) ==
  /\ Len(sockets) < MaxSockets
  /\ sockets' = Append(sockets, "connecting")
  /\ wsState' = SetState(m, wsState, Len(sockets) + 1)

\* The effects of the first render: fetchData(), connectWebSocket() (only
\* ComprehensiveDashboard), setInterval(fetchData, 30000).
Mount ==
  /\ mounted = "new"
  /\ mounted' = "mounted"
  /\ \E c \in CycleIds : FetchDataCall(c, "mounted")
  /\ IF component = "ComprehensiveDashboard"
     THEN ConnectWebSocket("mounted") /\ UNCHANGED reconnectTimers
     ELSE UNCHANGED <<sockets, reconnectTimers, wsState>>
  /\ dashOp' = "mount"
  /\ UNCHANGED component
  /\ UNCHANGED <<sessionVars, alertVars, tripVars, formVars, metricVars>>

\* The interval fires: it exists from the mount to clearInterval at unmount.
TimerTick(c) ==
  /\ mounted = "mounted"
  /\ FetchDataCall(c, mounted)
  /\ dashOp' = "tick"
  /\ UNCHANGED <<component, mounted, sockets, reconnectTimers, wsState>>
  /\ UNCHANGED <<sessionVars, alertVars, tripVars, formVars, metricVars>>

\* onClick={fetchData}: Retry Connection in the error view, the refresh
\* button in the header; neither is rendered while loading.
ManualRefresh(c) ==
  /\ mounted = "mounted"
  /\ ~loading
  /\ FetchDataCall(c, mounted)
  /\ dashOp' = "refresh"
  /\ UNCHANGED <<component, mounted, sockets, reconnectTimers, wsState>>
  /\ UNCHANGED <<sessionVars, alertVars, tripVars, formVars, metricVars>>

\* The ws the cleanup of the mount effect closes over: the effect's
\* dependencies (two useCallback(..., [])) never change, so the cleanup that
\* runs is the one of the first render, where ws is useState(null)'s null.
CleanupWs == 0

\* Unmount: the cleanups of both effects: if (ws) ws.close(); clearInterval.
Unmount ==
  /\ mounted = "mounted"
  /\ mounted' = "unmounted"
  /\ IF component = "ComprehensiveDashboard" /\ CleanupWs # 0
     THEN sockets' = [sockets EXCEPT ![CleanupWs] = "closing"]
     ELSE UNCHANGED sockets
  /\ dashOp' = "unmount"
  /\ UNCHANGED <<component, entities, loading, dashError, cycles, reconnectTimers, wsState>>
  /\ UNCHANGED <<sessionVars, alertVars, tripVars, formVars, metricVars>>

\* websocket.onopen
WsOpen(s) ==
  /\ s \in DOMAIN sockets
  /\ sockets[s] = "connecting"
  /\ sockets' = [sockets EXCEPT ![s] = "open"]
  /\ dashOp' = "wsOpen"
  /\ UNCHANGED <<component, mounted, entities, loading, dashError, cycles, reconnectTimers, wsState>>
  /\ UNCHANGED <<sessionVars, alertVars, tripVars, formVars, metricVars>>

\* An onclose that schedules no reconnect.
WsCloseWithoutReconnect(s) ==
  /\ s \in DOMAIN sockets
  /\ sockets[s] \in {"connecting", "open", "closing"}
  /\ sockets' = [sockets EXCEPT ![s] = "closed"]
  /\ dashOp' = "wsClose"
  /\ UNCHANGED <<component, mounted, entities, loading, dashError, cycles,
                 reconnectTimers, wsState>>
  /\ UNCHANGED <<sessionVars, alertVars, tripVars, formVars, metricVars>>

\* An onclose that schedules two reconnects.
WsCloseReconnectingTwice(s) ==
  /\ s \in DOMAIN sockets
  /\ sockets[s] \in {"connecting", "open", "closing"}
  /\ sockets' = [sockets EXCEPT ![s] = "closed"]
  /\ reconnectTimers' = reconnectTimers + 2
  /\ dashOp' = "wsClose"
  /\ UNCHANGED <<component, mounted, entities, loading, dashError, cycles, wsState>>
  /\ UNCHANGED <<sessionVars, alertVars, tripVars, formVars, metricVars>>

\* websocket.onclose (the server or the network closes the connection, a
\* connection attempt fails, or close() completes): setTimeout(connectWebSocket, 5000).
WsClose(s) ==
  /\ s \in DOMAIN sockets
  /\ sockets[s] \in {"connecting", "open", "closing"}
  /\ sockets' = [sockets EXCEPT ![s] = "closed"]
  /\ reconnectTimers' = reconnectTimers + 1
  /\ dashOp' = "wsClose"
  /\ UNCHANGED <<component, mounted, entities, loading, dashError, cycles, wsState>>
  /\ UNCHANGED <<sessionVars, alertVars, tripVars, formVars, metricVars>>

\* The reconnect timer fires: connectWebSocket.
ReconnectTimerFires ==
  /\ reconnectTimers > 0
  /\ reconnectTimers' = reconnectTimers - 1
  /\ ConnectWebSocket(mounted)
  /\ dashOp' = "reconnect"
  /\ UNCHANGED <<component, mounted, entities, loading, dashError, cycles>>
  /\ UNCHANGED <<sessionVars, alertVars, tripVars, formVars, metricVars>>

\* event.data of a message: JSON with one of the two tags, JSON with another
\* tag, the JSON text null, text that is not JSON.
MessageKinds == {"sensor_data", "alert", "status", "json_null", "not_json"}

\* JSON.parse(event.data).type, or "throws" when parsing or reading .type throws.
ParsedType(kind) ==
  IF kind \in {"json_null", "not_json"} THEN "throws" ELSE kind

\* A handler that refetches on every message it can parse.
RefetchesOnAnyType(kind) == ParsedType(kind) # "throws"

Refetches(kind) == ParsedType(kind) \in {"sensor_data", "alert"}

\* websocket.onmessage
WsMessage(s, kind, c) ==
  /\ s \in DOMAIN sockets
  /\ sockets[s] = "open"
  /\ IF Refetches(kind)
     THEN FetchDataCall(c, mounted)
     ELSE UNCHANGED <<entities, loading, dashError, cycles>>
  /\ dashOp' = kind
  /\ UNCHANGED <<component, mounted, sockets, reconnectTimers, wsState>>
  /\ UNCHANGED <<sessionVars, alertVars, tripVars, formVars, metricVars>>

NextDashboard ==
  \/ Mount
  \/ \E c \in CycleIds : TimerTick(c)
  \/ \E c \in CycleIds : ManualRefresh(c)
  \/ \E c \in CycleIds, r \in Requests : RequestFulfilled(c, r)
  \/ \E c \in CycleIds, r \in Requests : RequestRejected(c, r)
  \/ Unmount
  \/ \E s \in SocketIds : WsOpen(s)
  \/ \E s \in SocketIds : WsClose(s)
  \/ ReconnectTimerFires
  \/ \E s \in SocketIds, kind \in MessageKinds, c \in CycleIds : WsMessage(s, kind, c)

(***************************************************************************)
(* Alerts page: AlertsPageSimple (AlertsPage has the same two handlers)    *)
(***************************************************************************)

AlertIds == 1..MaxAlerts
FetchIds == 1..MaxFetches
ResolveIds == 1..MaxResolves

NoBody == [kind |-> "none"]
NoFetch == [st |-> "none", body |-> NoBody]
NoResolve == [st |-> "none", alert |-> 0, ok |-> FALSE]

\* What GET /api/alerts can come back with: the list (each alert with its
\* resolved flag as the backend holds it when it answers), a 2xx whose body
\* is no array, a non-2xx, or no answer.
AlertsBodyKinds == {"list", "notArray", "httpError", "networkError"}

AlertsBody(kind) ==
  IF kind = "list" THEN [kind |-> "list", list |-> backendAlerts] ELSE [kind |-> kind]

AlertsOf(list) == [a \in AlertIds |-> IF list[a] THEN "resolved" ELSE "active"]
EmptyList == [a \in AlertIds |-> "absent"]

InitAlerts ==
  /\ backendAlerts = [a \in AlertIds |-> FALSE]
  /\ alerts = EmptyList
  /\ alertsLoading = TRUE
  /\ alertsError = NoString
  /\ fetches = [f \in FetchIds |-> NoFetch]
  /\ resolves = [r \in ResolveIds |-> NoResolve]
  /\ alertsOp = "init"

\* fetchAlerts up to its await of fetch('http://localhost:8000/api/alerts')
FetchAlertsCall(f) ==
  /\ fetches[f].st = "none"
  /\ \A g \in FetchIds : g < f => fetches[g].st # "none"
  /\ fetches' = [fetches EXCEPT ![f] = [st |-> "sent", body |-> NoBody]]

AlertsMounted == fetches[1].st # "none"

\* The effect of the first render: fetchAlerts(); setInterval(fetchAlerts, 30000)
AlertsMount ==
  /\ ~AlertsMounted
  /\ FetchAlertsCall(1)
  /\ alertsOp' = "mount"
  /\ UNCHANGED <<backendAlerts, alerts, alertsLoading, alertsError, resolves>>
  /\ UNCHANGED <<sessionVars, dashVars, tripVars, formVars, metricVars>>

\* The interval fires, or Retry is clicked in the error view.
AlertsRefresh(f) ==
  /\ AlertsMounted
  /\ FetchAlertsCall(f)
  /\ alertsOp' = "refresh"
  /\ UNCHANGED <<backendAlerts, alerts, alertsLoading, alertsError, resolves>>
  /\ UNCHANGED <<sessionVars, dashVars, tripVars, formVars, metricVars>>

\* The backend answers GET /api/alerts from its table as it is now.
AlertsRespond(f, kind) ==
  /\ fetches[f].st = "sent"
  /\ fetches' = [fetches EXCEPT ![f] = [st |-> "answered", body |-> AlertsBody(kind)]]
  /\ alertsOp' = "respond"
  /\ UNCHANGED <<backendAlerts, alerts, alertsLoading, alertsError, resolves>>
  /\ UNCHANGED <<sessionVars, dashVars, tripVars, formVars, metricVars>>

\* setAlerts(Array.isArray(data) ? data : []) of the try block
ReceivedAlerts(body) ==
  IF body.kind = "list" THEN AlertsOf(body.list) ELSE EmptyList

\* fetchAlerts after its awaits: the try block's setters, or the catch block's.
FetchAlertsSettle(f) ==
  /\ fetches[f].st = "answered"
  /\ LET body == fetches[f].body IN
       IF body.kind \in {"list", "notArray"}
       THEN /\ alerts' = ReceivedAlerts(body)
            /\ alertsError' = NoString
       ELSE /\ alerts' = EmptyList
            /\ alertsError' = body.kind
  /\ alertsLoading' = FALSE
  /\ fetches' = [fetches EXCEPT ![f] = [st |-> "done", body |-> NoBody]]
  /\ alertsOp' = "settle"
  /\ UNCHANGED <<backendAlerts, resolves>>
  /\ UNCHANGED <<sessionVars, dashVars, tripVars, formVars, metricVars>>

\* handleResolveAlert up to its await: the Resolve button is rendered for an
\* alert of the list that is not resolved.
HandleResolveAlert(r, a) ==
  /\ ~alertsLoading
  /\ alertsError = NoString
  /\ alerts[a] = "active"
  /\ resolves[r].st = "none"
  /\ \A q \in ResolveIds : q < r => resolves[q].st # "none"
  /\ resolves' = [resolves EXCEPT ![r] = [st |-> "sent", alert |-> a, ok |-> FALSE]]
  /\ alertsOp' = "resolve"
  /\ UNCHANGED <<backendAlerts, alerts, alertsLoading, alertsError, fetches>>
  /\ UNCHANGED <<sessionVars, dashVars, tripVars, formVars, metricVars>>

\* How a POST /api/alerts/{id}/resolve can end: the backend marks the alert
\* and answers 2xx; it answers non-2xx and marks nothing; it marks the alert
\* and the answer is lost on the way (fetch rejects).
ResolveOutcomes == {"ok", "rejected", "lost"}

ResolveRespond(r, outcome) ==
  /\ resolves[r].st = "sent"
  /\ resolves' = [resolves EXCEPT ![r].st = "answered", ![r].ok = (outcome = "ok")]
  /\ backendAlerts' = IF outcome \in {"ok", "lost"}
                      THEN [backendAlerts EXCEPT ![resolves[r].alert] = TRUE]
                      ELSE backendAlerts
  /\ alertsOp' = "resolveRespond"
  /\ UNCHANGED <<alerts, alertsLoading, alertsError, fetches>>
  /\ UNCHANGED <<sessionVars, dashVars, tripVars, formVars, metricVars>>

\* A handler that refetches whatever the answer was.
ResolveSettleAlwaysRefetching(r, f) ==
  /\ resolves[r].st = "answered"
  /\ resolves' = [resolves EXCEPT ![r].st = "done"]
  /\ FetchAlertsCall(f)
  /\ alertsOp' = "resolveSettle"
  /\ UNCHANGED <<backendAlerts, alerts, alertsLoading, alertsError>>
  /\ UNCHANGED <<sessionVars, dashVars, tripVars, formVars, metricVars>>

\* handleResolveAlert after its await: if (response.ok) fetchAlerts().
ResolveSettle(r, f) ==
  /\ resolves[r].st = "answered"
  /\ resolves' = [resolves EXCEPT ![r].st = "done"]
  /\ IF resolves[r].ok
     THEN FetchAlertsCall(f)
     ELSE UNCHANGED fetches
  /\ alertsOp' = "resolveSettle"
  /\ UNCHANGED <<backendAlerts, alerts, alertsLoading, alertsError>>
  /\ UNCHANGED <<sessionVars, dashVars, tripVars, formVars, metricVars>>

NextAlerts ==
  \/ AlertsMount
  \/ \E f \in FetchIds : AlertsRefresh(f)
  \/ \E f \in FetchIds, kind \in AlertsBodyKinds : AlertsRespond(f, kind)
  \/ \E f \in FetchIds : FetchAlertsSettle(f)
  \/ \E r \in ResolveIds, a \in AlertIds : HandleResolveAlert(r, a)
  \/ \E r \in ResolveIds, outcome \in ResolveOutcomes : ResolveRespond(r, outcome)
  \/ \E r \in ResolveIds, f \in FetchIds : ResolveSettle(r, f)

(***************************************************************************)
(* The round trip: log in, log out, log in again on the same input         *)
(* (store/authStore.js: login or mockLogin, logout)                        *)
(***************************************************************************)

\* The five fields of the session.
Session ==
  [ user |-> user, token |-> token, isAuthenticated |-> isAuthenticated,
    isLoading |-> isLoading, error |-> error ]

\* What is logged in with: credentials, given by the answer the backend has
\* for them, or a role handed to mockLogin.
TripInputs ==
  { [kind |-> "login", resp |-> r] : r \in {x \in LoginResponses : x.kind = "ok"} }
  \cup { [kind |-> "mockLogin", role |-> r] : r \in Roles }

NoTrip == [input |-> [kind |-> "none"], step |-> "idle", first |-> Null]

\* Sessions the store is in when the first login is made: a fresh store, a
\* store rehydrated with a demo admin's session, a store after a login the
\* backend rejected.
StartSessions ==
  { [ user |-> Null, token |-> NoString, isAuthenticated |-> FALSE,
      isLoading |-> FALSE, error |-> NoString ],
    [ user |-> MockUser("admin"), token |-> MockToken, isAuthenticated |-> TRUE,
      isLoading |-> FALSE, error |-> NoString ],
    [ user |-> Null, token |-> NoString, isAuthenticated |-> FALSE,
      isLoading |-> FALSE, error |-> LoginErrorMessage([kind |-> "notOk"]) ] }

InitTripSession ==
  /\ \E s \in StartSessions :
       /\ user = s.user
       /\ token = s.token
       /\ isAuthenticated = s.isAuthenticated
       /\ isLoading = s.isLoading
       /\ error = s.error
       /\ storage = JSONStringify(partialize(s.user, s.token, s.isAuthenticated))
  /\ loginCalls = [i \in LoginIds |-> NoCall]
  /\ currentView = "dashboard"
  /\ sessionOp = "init"
  /\ trip \in { [input |-> x, step |-> "start", first |-> Null] : x \in TripInputs }

\* login(username, password) is called: its set() before the request.
TripLoginCall ==
  /\ trip.input.kind = "login"
  /\ trip.step \in {"start", "out"}
  /\ LoginCallState
  /\ trip' = [trip EXCEPT !.step = IF trip.step = "start" THEN "called1" ELSE "called2"]
  /\ sessionOp' = "login"
  /\ UNCHANGED <<loginCalls, currentView>>
  /\ UNCHANGED <<dashVars, alertVars, formVars, metricVars>>

\* The backend's answer for the credentials arrives and login runs to its end.
TripLoginSettle ==
  /\ trip.step \in {"called1", "called2"}
  /\ LoginSuccessState(trip.input.resp)
  /\ trip' = IF trip.step = "called1"
             THEN [trip EXCEPT !.step = "in1", !.first = Session']
             ELSE [trip EXCEPT !.step = "in2"]
  /\ sessionOp' = "loginSuccess"
  /\ UNCHANGED <<loginCalls, currentView>>
  /\ UNCHANGED <<dashVars, alertVars, formVars, metricVars>>

\* mockLogin(role)
TripMockLogin ==
  /\ trip.input.kind = "mockLogin"
  /\ trip.step \in {"start", "out"}
  /\ MockLoginState(trip.input.role)
  /\ trip' = IF trip.step = "start"
             THEN [trip EXCEPT !.step = "in1", !.first = Session']
             ELSE [trip EXCEPT !.step = "in2"]
  /\ sessionOp' = "mockLogin"
  /\ UNCHANGED <<loginCalls, currentView>>
  /\ UNCHANGED <<dashVars, alertVars, formVars, metricVars>>

\* logout() between the two logins
TripLogout ==
  /\ trip.step = "in1"
  /\ LogoutState
  /\ trip' = [trip EXCEPT !.step = "out"]
  /\ sessionOp' = "logout"
  /\ UNCHANGED <<loginCalls, currentView>>
  /\ UNCHANGED <<dashVars, alertVars, formVars, metricVars>>

NextRoundTrip ==
  \/ TripLoginCall
  \/ TripLoginSettle
  \/ TripMockLogin
  \/ TripLogout

(***************************************************************************)
(* Login form: LoginForm with the store and App                            *)
(***************************************************************************)

\* No submission has been made.
NoSubmission == [username |-> "", password |-> "", selectedRole |-> "none"]

\* LoginForm's useState initial values: lines 14-19.
InitialFormData == [username |-> "", password |-> "", selectedRole |-> "operator"]

InitialForm ==
  [ username |-> InitialFormData.username, password |-> InitialFormData.password,
    selectedRole |-> InitialFormData.selectedRole, submitted |-> NoSubmission ]

\* What may be typed into the two inputs: nothing, the demo credentials of
\* the two roles, and text that is no credential of anyone.
Usernames == {"", "operator", "admin", "mallory"}
Passwords == {"", "operator123", "admin123", "wrong"}

Forms ==
  [username : Usernames, password : Passwords, selectedRole : DemoRoles]

\* handleInputChange: setFormData(prev => ({...prev, [name]: value})).
HandleInputChange(name, value) ==
  /\ Rendered = "login"
  /\ form' = [form EXCEPT ![name] = value]
  /\ UNCHANGED <<sessionVars, dashVars, alertVars, tripVars, metricVars>>

\* A click on one of the two role buttons: setSelectedRole(role).
SetSelectedRole(role) ==
  /\ Rendered = "login"
  /\ form' = [form EXCEPT !.selectedRole = role]
  /\ UNCHANGED <<sessionVars, dashVars, alertVars, tripVars, metricVars>>

\* Both inputs are required: the browser fires no submit event while one of
\* them is empty.
CanSubmit(f) == f.username # "" /\ f.password # ""

\* A handleSubmit that signs in under the name that was typed.
handleSubmitSessionWithUsername(f) ==
  [MockSession(f.selectedRole) EXCEPT !.user.username = f.username]

\* The session handleSubmit leaves: clearError(); mockLogin(selectedRole).
handleSubmitSession(f) == MockSession(f.selectedRole)

\* LoginForm.handleSubmit on the form as it is filled in.  App then renders
\* the navigation, and the next login form is a new instance.
HandleSubmitOfForm ==
  /\ Rendered = "login"
  /\ CanSubmit(form)
  /\ LET s == handleSubmitSession(form) IN
       SetSession(s.user, s.token, s.isAuthenticated, s.isLoading, s.error)
  /\ sessionOp' = "handleSubmit"
  /\ form' = [InitialForm EXCEPT
                !.submitted = [ username |-> form.username, password |-> form.password,
                                selectedRole |-> form.selectedRole ]]
  /\ UNCHANGED <<loginCalls, currentView>>
  /\ UNCHANGED <<dashVars, alertVars, tripVars, metricVars>>

\* A reload while the login form is filled in: the form starts over too.
ReloadOfForm ==
  /\ ReloadBody
  /\ form' = [InitialForm EXCEPT !.submitted = form.submitted]
  /\ UNCHANGED <<dashVars, alertVars, tripVars, metricVars>>

\* The events of the login form and of the navigation that leads back to it.
NextLoginForm ==
  \/ \E u \in Usernames : HandleInputChange("username", u)
  \/ \E p \in Passwords : HandleInputChange("password", p)
  \/ \E r \in DemoRoles : SetSelectedRole(r)
  \/ HandleSubmitOfForm
  \/ \E v \in Views : Navigate(v)
  \/ HandleLogout
  \/ ReloadOfForm

(***************************************************************************)
(* Metric cards: getMetricStatus of Dashboard.js and of                    *)
(* ComprehensiveDashboard                                                  *)
(***************************************************************************)

MaxBelowZero == 2  \* how far below zero the readings go
MaxValue == 520    \* the greatest reading

\* The least reading.
MinValue == 0 - MaxBelowZero

MetricTypes == {"temperature", "soc", "voltage", "pressure", "generation"}

\* What a card hands over as value: a number, null, or undefined (a reading
\* that lacks the field).
MetricValues ==
  { [t |-> "number", v |-> n] : n \in MinValue..MaxValue }
  \cup { [t |-> "null", v |-> 0], [t |-> "undefined", v |-> 0] }

\* JavaScript's value > n and value < n for a number n: null converts to 0,
\* undefined to NaN, and every comparison with NaN is false.
JsGreater(value, n) ==
  CASE value.t = "number" -> value.v > n
    [] value.t = "null" -> 0 > n
    [] OTHER -> FALSE

JsLess(value, n) ==
  CASE value.t = "number" -> value.v < n
    [] value.t = "null" -> 0 < n
    [] OTHER -> FALSE

\* A classifier whose harsher bands include their cut-points (the readings
\* are whole numbers).
getMetricStatusInclusive(type, value) ==
  CASE type = "temperature" ->
         IF JsGreater(value, 99) THEN "critical"
         ELSE IF JsGreater(value, 79) THEN "warning" ELSE "good"
    [] type = "soc" ->
         IF JsLess(value, 16) THEN "critical"
         ELSE IF JsLess(value, 31) THEN "warning" ELSE "good"
    [] type = "voltage" ->
         IF JsLess(value, 181) THEN "critical"
         ELSE IF JsLess(value, 201) THEN "warning" ELSE "good"
    [] OTHER -> "normal"

\* Dashboard.getMetricStatus: Dashboard.js lines 85-102.
getMetricStatus(type, value) ==
  CASE type = "temperature" ->
         IF JsGreater(value, 100) THEN "critical"
         ELSE IF JsGreater(value, 80) THEN "warning" ELSE "good"
    [] type = "soc" ->
         IF JsLess(value, 15) THEN "critical"
         ELSE IF JsLess(value, 30) THEN "warning" ELSE "good"
    [] type = "voltage" ->
         IF JsLess(value, 180) THEN "critical"
         ELSE IF JsLess(value, 200) THEN "warning" ELSE "good"
    [] OTHER -> "normal"

\* ComprehensiveDashboard.getMetricStatus: lines 126-147.
getMetricStatusComprehensive(type, value) ==
  CASE type = "temperature" ->
         IF JsGreater(value, 500) THEN "critical"
         ELSE IF JsGreater(value, 450) THEN "warning" ELSE "good"
    [] type = "soc" ->
         IF JsLess(value, 15) THEN "critical"
         ELSE IF JsLess(value, 30) THEN "warning" ELSE "good"
    [] type = "voltage" ->
         IF JsLess(value, 180) THEN "critical"
         ELSE IF JsLess(value, 200) THEN "warning" ELSE "good"
    [] type = "pressure" ->
         IF JsGreater(value, 20) THEN "critical"
         ELSE IF JsGreater(value, 15) THEN "warning" ELSE "good"
    [] OTHER -> "normal"

NoStatus == "none"
NoMetric ==
  [ type |-> "none", value |-> [t |-> "undefined", v |-> 0],
    dashboard |-> NoStatus, comprehensive |-> NoStatus ]

\* A reading to be shown on a card of each dashboard.
Readings ==
  { [type |-> ty, value |-> x, dashboard |-> NoStatus, comprehensive |-> NoStatus] :
      ty \in MetricTypes, x \in MetricValues }

\* Dashboard renders the card: status={getMetricStatus(type, value)}.
DashboardCard ==
  /\ metric.type # "none"
  /\ metric.dashboard = NoStatus
  /\ metric' = [metric EXCEPT !.dashboard = getMetricStatus(metric.type, metric.value)]
  /\ UNCHANGED <<sessionVars, dashVars, alertVars, tripVars, formVars>>

\* ComprehensiveDashboard renders the card.
ComprehensiveCard ==
  /\ metric.type # "none"
  /\ metric.comprehensive = NoStatus
  /\ metric' = [metric EXCEPT
                  !.comprehensive = getMetricStatusComprehensive(metric.type, metric.value)]
  /\ UNCHANGED <<sessionVars, dashVars, alertVars, tripVars, formVars>>

NextMetric ==
  \/ DashboardCard
  \/ ComprehensiveCard

(***************************************************************************)
(* App with its dashboard: App.js renders Dashboard for the view           *)
(* 'dashboard' of an authenticated session that is not loading.            *)
(***************************************************************************)

\* An App that renders the view without asking isAuthenticated.
DashboardRenderedWithoutAuth(l, a, v) == ~l /\ v = "dashboard"

\* Whether App's return has a Dashboard in it: lines 19-35.
DashboardRendered(l, a, v) == ~l /\ a /\ v = "dashboard"

\* The requests of a component instance that is gone for good: nothing of
\* theirs reaches the instance that replaces it.
Orphaned ==
  [c \in CycleIds |->
     IF cycles[c].st = "pending"
     THEN [cycles[c] EXCEPT !.st = "orphaned"] ELSE cycles[c]]

\* A new instance of Dashboard is rendered: its useState initial values.
NewDashboard ==
  /\ mounted' = "new"
  /\ entities' = [e \in Entities |-> 0]
  /\ loading' = TRUE
  /\ dashError' = NoString
  /\ cycles' = Orphaned
  /\ dashOp' = "render"

\* The commit of App's render for isLoading l, isAuthenticated a and view v
\* (fresh: after a reload, when nothing of the old page is left): a Dashboard
\* is kept, created, or unmounted with the cleanup of its effects.
RenderApp(l, a, v, fresh) ==
  IF DashboardRendered(l, a, v)
  THEN IF mounted \in {"new", "mounted"} /\ ~fresh
       THEN UNCHANGED <<mounted, entities, loading, dashError, cycles, dashOp>>
       ELSE NewDashboard
  ELSE /\ mounted' = "unmounted"
       /\ cycles' = IF fresh THEN Orphaned ELSE cycles
       /\ dashOp' = IF mounted = "unmounted" THEN dashOp ELSE "unmount"
       /\ UNCHANGED <<entities, loading, dashError>>

\* The store and the view state are external stores and state of App: a
\* change of them is rendered and committed before any other event is handled.
AppCommit(fresh) ==
  /\ RenderApp(isLoading', isAuthenticated', currentView', fresh)
  /\ UNCHANGED <<component, sockets, reconnectTimers, wsState>>
  /\ UNCHANGED <<alertVars, tripVars, formVars, metricVars>>

\* App before anyone has signed in: no Dashboard has been rendered yet.
InitApp ==
  /\ InitSession
  /\ component = "Dashboard"
  /\ mounted = "unmounted"
  /\ entities = [e \in Entities |-> 0]
  /\ loading = TRUE
  /\ dashError = NoString
  /\ cycles = [c \in 1..MaxPulls |-> NoCycle]
  /\ sockets = <<>>
  /\ reconnectTimers = 0
  /\ wsState = 0
  /\ dashOp = "init"
  /\ InitAlerts
  /\ trip = NoTrip
  /\ form = InitialForm
  /\ metric = NoMetric

\* The events of the running App: the login form (which signs in with
\* mockLogin; the store's login has no caller in the components), the
\* navigation, a reload, and the Dashboard's effects, timer, buttons and
\* responses.
NextApp ==
  \/ \E r \in DemoRoles : HandleSubmitBody(r) /\ AppCommit(FALSE)
  \/ \E v \in Views : NavigateBody(v) /\ AppCommit(FALSE)
  \/ HandleLogoutBody /\ AppCommit(FALSE)
  \/ ReloadBody /\ AppCommit(TRUE)
  \/ Mount
  \/ \E c \in CycleIds : TimerTick(c)
  \/ \E c \in CycleIds : ManualRefresh(c)
  \/ \E c \in CycleIds : PromiseAllResolves(c)
  \/ \E c \in CycleIds : PromiseAllRejects(c)

(***************************************************************************)
(* Specifications: the session store with the App shell, the dashboard and *)
(* the alerts page share no state, and each is checked with the other two  *)
(* at rest.  SpecApp puts the session and the Dashboard together.          *)
(***************************************************************************)

Init ==
  /\ InitSession
  /\ InitDashboard
  /\ InitAlerts
  /\ trip = NoTrip
  /\ form = InitialForm
  /\ metric = NoMetric

SpecSession == Init /\ [][NextSession]_vars
SpecDashboard == Init /\ [][NextDashboard]_vars
SpecAlerts == Init /\ [][NextAlerts]_vars

\* The dashboard's events with each pull cycle ending in one step, when its
\* Promise.all settles.
NextReconnect ==
  \/ Mount
  \/ \E c \in CycleIds : TimerTick(c)
  \/ \E c \in CycleIds : ManualRefresh(c)
  \/ \E c \in CycleIds : PromiseAllResolves(c)
  \/ \E c \in CycleIds : PromiseAllRejects(c)
  \/ Unmount
  \/ \E s \in SocketIds : WsOpen(s)
  \/ \E s \in SocketIds : WsClose(s)
  \/ ReconnectTimerFires
  \/ \E s \in SocketIds, kind \in MessageKinds, c \in CycleIds : WsMessage(s, kind, c)

\* The dashboard with its timers firing: a timer set by setTimeout fires once
\* its delay is over, unless the page has gone.
SpecReconnect == Init /\ [][NextReconnect]_vars /\ WF_vars(ReconnectTimerFires)

\* The dashboard with its effects run after the first render and every pull
\* cycle coming to an end: each request is answered, fails, or is ended by
\* the 10 s timeout of the axios instance.
SpecLoading ==
  /\ Init
  /\ [][NextReconnect]_vars
  /\ WF_vars(Mount)
  /\ \A c \in 1..MaxCycles :
       WF_vars(PromiseAllResolves(c) \/ PromiseAllRejects(c))

\* App with the session store and the Dashboard it renders.
SpecApp == InitApp /\ [][NextApp]_vars

\* The round trip, from each start session and on each input.
InitRoundTrip ==
  /\ InitTripSession
  /\ InitDashboard
  /\ InitAlerts
  /\ form = InitialForm
  /\ metric = NoMetric

SpecRoundTrip == InitRoundTrip /\ [][NextRoundTrip]_vars

\* The login form with the store and the navigation.
SpecLoginForm == Init /\ [][NextLoginForm]_vars

\* The metric cards of the two dashboards, on every reading.
InitMetric ==
  /\ InitSession
  /\ InitDashboard
  /\ InitAlerts
  /\ trip = NoTrip
  /\ form = InitialForm
  /\ metric \in Readings

SpecMetric == InitMetric /\ [][NextMetric]_vars

(***************************************************************************)
(* Properties                                                              *)
(***************************************************************************)

\* C1: a pull cycle in which a request rejects changes none of the entities
\* (sensor history, latest reading, alerts, system status, analytics,
\* lastUpdate), whatever its other requests brought, and leaves a non-null
\* error in the state of the mounted component: the step in which a cycle
\* fails writes no entity, and the only steps that write entities are those
\* in which all five requests of one cycle have been fulfilled.
C1_FailedCycleChangesNoEntity ==
  [][/\ \A c \in CycleIds :
          (cycles[c].st # "failed" /\ cycles'[c].st = "failed")
            => /\ entities' = entities
               /\ mounted' = "mounted" => dashError' # NoString
     /\ entities' # entities
          => \E c \in CycleIds :
               /\ cycles[c].st = "pending"
               /\ cycles'[c].st = "applied"
               /\ cycles'[c].ok = Requests
               /\ entities' = [e \in Entities |-> c]]_vars

\* A cycle of Dashboard has failed after some of its requests were fulfilled.
C1_Witness ==
  /\ component = "Dashboard"
  /\ mounted = "mounted"
  /\ dashOp = "rejected"
  /\ \E c \in CycleIds : cycles[c].st = "failed" /\ cycles[c].ok # {}
  /\ dashError # NoString

\* C2: the resolved flag of an alert in the client's list goes from false to
\* true only, never from true back to false.
C2_ResolvedNeverReverts ==
  [][\A a \in AlertIds : alerts[a] = "resolved" => alerts'[a] # "active"]_vars

\* C3: once the component is unmounted no entity, error or loading state is
\* written and fetchData is not called again.
C3_NothingAfterStop ==
  [][mounted = "unmounted" =>
       /\ entities' = entities
       /\ loading' = loading
       /\ dashError' = dashError
       /\ CallsOfFetchData' = CallsOfFetchData]_vars

\* C4: the unmount leaves no WebSocket connecting or open, and after it no
\* WebSocket is created.
C4_StopClosesConnection ==
  [][/\ (mounted = "mounted" /\ mounted' = "unmounted")
          => \A s \in DOMAIN sockets' : sockets'[s] \notin {"connecting", "open"}
     /\ mounted = "unmounted" => Len(sockets') = Len(sockets)]_vars

\* C5: a message tagged sensor_data or alert makes exactly one call of
\* fetchData and writes no entity; any other message, parsable or not,
\* makes no call and changes no state of the component.
C5_PushIsRefetchSignal ==
  [][/\ dashOp' \in {"sensor_data", "alert"}
          => /\ CallsOfFetchData' = CallsOfFetchData + 1
             /\ entities' = entities
     /\ dashOp' \in {"status", "json_null", "not_json"}
          => /\ cycles' = cycles
             /\ entities' = entities
             /\ loading' = loading
             /\ dashError' = dashError]_vars

\* An alert message has arrived on an open socket and started a call of
\* fetchData beyond the one of the mount.
C5_Witness ==
  /\ dashOp = "alert"
  /\ CallsOfFetchData = 2
  /\ \E s \in DOMAIN sockets : sockets[s] = "open"

\* The rank of a role in the hierarchy {operator: 1, admin: 2}; 0: not in it.
C6_Rank(role) ==
  CASE role = "operator" -> 1
    [] role = "admin" -> 2
    [] OTHER -> 0

\* C6: hasRole(r) is true iff there is a user and both the user's role and r
\* are in the hierarchy with rank(user.role) >= rank(r).
C6_HasRoleIsRankOrder ==
  \A r \in Roles :
    hasRole(r) <=> /\ user # Null
                   /\ C6_Rank(user.role) > 0
                   /\ C6_Rank(r) > 0
                   /\ C6_Rank(user.role) >= C6_Rank(r)

\* C7: whenever App renders a view for an operator or an admin, it is one of
\* the views the navigation offers that role; settings is never rendered
\* for an operator.
C7_RenderedViewPermitted ==
  (NavigationShown /\ user # Null /\ user.role \in DemoRoles)
    => currentView \in filteredNavItems

\* The views a role may see, from the roles table.
C8_VisibleViews(role) ==
  CASE role = "operator" -> {"dashboard", "analytics", "alerts"}
    [] role = "admin" -> {"dashboard", "analytics", "alerts", "settings"}
    [] OTHER -> {}

\* C8: the navigation items rendered are those of the user's role: three for
\* an operator, the same and settings for an admin, none without a user or
\* with a role outside the hierarchy.
C8_NavItemsByRole ==
  filteredNavItems = IF user = Null THEN {} ELSE C8_VisibleViews(user.role)

\* An admin is offered settings (and an operator would not be).
C8_Witness ==
  /\ user # Null
  /\ user.role = "admin"
  /\ "settings" \in filteredNavItems
  /\ "settings" \notin filteredNavItemsOf(MockUser("operator"))

\* C9: a login the backend rejects, or that never reaches it, ends with a
\* non-null error, isLoading false and the session unauthenticated.
C9_FailedLoginUnauthenticated ==
  [][\A i \in LoginIds :
       (loginCalls[i].st = "answered" /\ loginCalls'[i].st = "failure")
         => /\ error' # NoString
            /\ ~isLoading'
            /\ ~isAuthenticated']_vars

LoginPending == \E i \in LoginIds : loginCalls[i].st \in {"sent", "answered"}

\* C10 as stated: as long as a login request is pending, isLoading is true
\* and error is null.
C10_PendingMeansLoading == LoginPending => (isLoading /\ error = NoString)

\* C10, amended: a login the backend accepts returns success with the
\* response's user and access_token stored, isAuthenticated true, isLoading
\* false and error null; the call of login sets isLoading true and error
\* null, and while a request is pending they stay so until mockLogin, a
\* completing login or a reload sets them.
C10_AcceptedLogin ==
  [][/\ \A i \in LoginIds :
          (loginCalls[i].st = "answered" /\ loginCalls[i].resp.kind = "ok"
             /\ loginCalls'[i].st \in {"success", "failure"})
            => /\ loginCalls'[i].st = "success"
               /\ user' = loginCalls[i].resp.user
               /\ token' = loginCalls[i].resp.access_token
               /\ isAuthenticated'
               /\ ~isLoading'
               /\ error' = NoString
     /\ \A i \in LoginIds :
          (loginCalls[i].st = "none" /\ loginCalls'[i].st = "sent")
            => (isLoading' /\ error' = NoString)
     /\ (LoginPending /\ isLoading /\ error = NoString
           /\ sessionOp' \notin {"mockLogin", "handleSubmit", "loginSuccess",
                                 "loginFailure", "reload"})
          => (isLoading' /\ error' = NoString)]_vars

\* A login has just returned success and the session holds a backend user.
C10_Witness ==
  /\ sessionOp = "loginSuccess"
  /\ \E i \in LoginIds : loginCalls[i].st = "success"
  /\ isAuthenticated
  /\ user \in BackendUsers
  /\ token \in BackendTokens
  /\ ~isLoading
  /\ error = NoString

\* C11: logout(), in whatever state it is called, is one step after which
\* user is null, token is null, isAuthenticated is false and error is null in
\* the store, and the persisted copy holds the cleared session.
C11_LogoutClearsSession ==
  [][sessionOp' \in {"logout", "handleLogout"}
       => /\ user' = Null
          /\ token' = NoString
          /\ ~isAuthenticated'
          /\ error' = NoString
          /\ JSONParse(storage') = partialize(Null, NoString, FALSE)]_vars

\* logout() has run on a session a login had authenticated, while a second
\* login was waiting for its response.
C11_Witness ==
  /\ sessionOp = "logout"
  /\ \E i \in LoginIds : loginCalls[i].st = "success"
  /\ \E i \in LoginIds : loginCalls[i].st = "sent"
  /\ isLoading
  /\ user = Null
  /\ JSONParse(storage) = partialize(Null, NoString, FALSE)

\* C12: a reload leaves user, token and isAuthenticated as they were at the
\* last state change before it, and isLoading and error at their initial
\* values false and null.
C12_ReloadRestoresSession ==
  [][sessionOp' = "reload"
       => /\ user' = user
          /\ token' = token
          /\ isAuthenticated' = isAuthenticated
          /\ ~isLoading'
          /\ error' = NoString]_vars

\* The page was reloaded while a login was waiting for its response, with
\* the session of a backend user that has no role.
C12_Witness ==
  /\ sessionOp = "reload"
  /\ \E i \in LoginIds : loginCalls[i].st = "aborted"
  /\ isAuthenticated
  /\ user \in BackendUsers
  /\ user.role = "undefined"
  /\ token \in BackendTokens

\* C13: after logging in, logging out and logging in again on the same
\* input (the same answer of the backend for login, the same role for
\* mockLogin), user, token, isAuthenticated, isLoading and error are what they
\* were after the first login.
C13_RoundTripSameSession ==
  trip.step = "in2" => Session = trip.first

\* The second login with the backend's answer has completed, and the session
\* is the one of the first.
C13_Witness ==
  /\ trip.step = "in2"
  /\ trip.input.kind = "login"
  /\ sessionOp = "loginSuccess"
  /\ isAuthenticated
  /\ user = trip.input.resp.user
  /\ token = trip.input.resp.access_token
  /\ Session = trip.first

\* The calls of fetchAlerts that a step starts.
C14_FetchesStarted ==
  {f \in FetchIds : fetches[f].st = "none" /\ fetches'[f].st = "sent"}

\* C14 as stated: the local resolved state of an alert changes only through
\* the response of the refetch its resolve call starts, hence not while that
\* call is still under way and its refetch not yet started.
C14_OnlyThroughItsRefetch ==
  [][\A r \in ResolveIds :
       resolves[r].st \in {"sent", "answered"}
         => ~(alerts[resolves[r].alert] = "active"
              /\ alerts'[resolves[r].alert] = "resolved")]_vars

\* C14, amended: no step of handleResolveAlert writes the alert list, which
\* changes only when a call of fetchAlerts receives its response; when the
\* backend call succeeded the handler starts exactly one call of fetchAlerts,
\* and when it failed (rejected, or answered non-OK) it starts none.
C14_ResolveRefetches ==
  [][/\ alerts' # alerts
          => \E f \in FetchIds : fetches[f].st = "answered" /\ fetches'[f].st = "done"
     /\ \A r \in ResolveIds :
          /\ (resolves[r].st = "none" /\ resolves'[r].st = "sent")
               => (alerts' = alerts /\ fetches' = fetches)
          /\ (resolves[r].st = "sent" /\ resolves'[r].st = "answered")
               => (alerts' = alerts /\ fetches' = fetches)
          /\ (resolves[r].st = "answered" /\ resolves'[r].st = "done")
               => /\ alerts' = alerts
                  /\ IF resolves[r].ok
                     THEN /\ Cardinality(C14_FetchesStarted) = 1
                          /\ \A f \in FetchIds \ C14_FetchesStarted :
                               fetches'[f] = fetches[f]
                     ELSE fetches' = fetches]_vars

\* A resolve call succeeded, its refetch was answered, and the list now shows
\* the alert as resolved.
C14_Witness ==
  /\ alertsOp = "settle"
  /\ \E r \in ResolveIds :
       /\ resolves[r].st = "done"
       /\ resolves[r].ok
       /\ alerts[resolves[r].alert] = "resolved"
       /\ backendAlerts[resolves[r].alert]

\* C15: an alert that is in the client's list (and that the backend still
\* has: the backend of the model deletes none) is not removed from the list.
C15_AlertNeverRemoved ==
  [][\A a \in AlertIds : alerts[a] # "absent" => alerts'[a] # "absent"]_vars

\* C16: the entities never go back to the results of a cycle that was started
\* before the one they come from (cycles are numbered in the order of their
\* start).
C16_EntitiesNeverGoBack ==
  [][\A e \in Entities : entities'[e] >= entities[e]]_vars

\* C17: a timer tick, a manual refresh or a push message tagged sensor_data
\* or alert starts a new cycle and leaves every cycle in flight as it is; a
\* cycle all of whose requests are fulfilled is applied to the mounted
\* component whatever else is in flight, and the entities are then exactly
\* that cycle's; nothing else writes them.
C17_OverlapLastWriteWins ==
  [][/\ dashOp' \in {"tick", "refresh", "sensor_data", "alert"}
          => /\ CallsOfFetchData' = CallsOfFetchData + 1
             /\ \A d \in CycleIds : cycles[d].st # "none" => cycles'[d] = cycles[d]
     /\ \A c \in CycleIds :
          (cycles[c].st = "pending" /\ cycles'[c].st = "applied" /\ mounted = "mounted")
            => entities' = [e \in Entities |-> c]
     /\ entities' # entities
          => \E c \in CycleIds : cycles[c].st = "pending" /\ cycles'[c].st = "applied"]_vars

\* Two cycles of Dashboard overlapped and both succeeded; the one started
\* first was applied last, and the entities are its results.
C17_Witness ==
  /\ component = "Dashboard"
  /\ mounted = "mounted"
  /\ dashOp = "applied"
  /\ cycles[1].st = "applied"
  /\ cycles[2].st = "applied"
  /\ entities = [e \in Entities |-> 1]

\* C18: every close of a WebSocket schedules a reconnect, however many there
\* were before; a scheduled reconnect leads to a new WebSocket (up to the
\* MaxSockets of the model); and with a reconnect pending a timer tick can
\* still start a pull cycle.
C18_ReconnectsForever ==
  /\ [][dashOp' = "wsClose" => reconnectTimers' = reconnectTimers + 1]_vars
  /\ \A n \in 0..(MaxSockets - 1) :
       (reconnectTimers > 0 /\ Len(sockets) = n) ~> (Len(sockets) > n)
  /\ [](((mounted = "mounted") /\ (\E c \in CycleIds : cycles[c].st = "none"))
          => ENABLED (\E c \in CycleIds : TimerTick(c)))

\* The first connection closed, the reconnect was made and closed too, and
\* with that second reconnect pending a timer tick has started a cycle.
C18_Witness ==
  /\ component = "ComprehensiveDashboard"
  /\ mounted = "mounted"
  /\ dashOp = "tick"
  /\ Len(sockets) = 2
  /\ sockets[1] = "closed"
  /\ sockets[2] = "closed"
  /\ reconnectTimers > 0

\* C19: the interval of Dashboard exists only while the session is
\* authenticated: whenever the component is mounted, or a timer tick can
\* start a pull cycle, isAuthenticated is true.
C19_TimerOnlyWhileAuthenticated ==
  (mounted = "mounted" \/ ENABLED (\E c \in CycleIds : TimerTick(c)))
    => isAuthenticated

\* The user has signed out while the Dashboard was polling: a tick had
\* started a second cycle, a cycle is still in flight, and the component is
\* unmounted.
C19_Witness ==
  /\ sessionOp = "handleLogout"
  /\ ~isAuthenticated
  /\ dashOp = "unmount"
  /\ mounted = "unmounted"
  /\ CallsOfFetchData >= 2
  /\ \E c \in CycleIds : cycles[c].st = "pending"

DashboardView ==
  IF loading THEN "spinner"
  ELSE IF dashError # NoString THEN "errorPage"
  ELSE "data"

\* C21: once a pull cycle of the mounted Dashboard has succeeded (its
\* entities are a cycle's results), the full-page retry prompt is not shown.
C21_NoFullPagePromptAfterLoad ==
  (mounted = "mounted" /\ \E e \in Entities : entities[e] # 0)
    => DashboardView # "errorPage"

\* The band a number falls in: above the upper cut-point critical, above the
\* lower one warning (for soc and voltage: below), the cut-points themselves
\* in the milder band.
C22_Band(type, n) ==
  CASE type = "temperature" ->
         IF n > 100 THEN "critical" ELSE IF n > 80 THEN "warning" ELSE "good"
    [] type = "soc" ->
         IF n < 15 THEN "critical" ELSE IF n < 30 THEN "warning" ELSE "good"
    [] type = "voltage" ->
         IF n < 180 THEN "critical" ELSE IF n < 200 THEN "warning" ELSE "good"

\* C22: for temperature, soc and voltage, the status Dashboard gives a
\* reading is the band of its number (null counts as 0), and good when the
\* reading is no number; 80 and 100 degrees, 15 and 30 percent, 180 and 200
\* volts fall in the milder band.
C22_DashboardClassifier ==
  (metric.dashboard # NoStatus /\ metric.type \in {"temperature", "soc", "voltage"})
    => metric.dashboard =
         CASE metric.value.t = "number" -> C22_Band(metric.type, metric.value.v)
           [] metric.value.t = "null" -> C22_Band(metric.type, 0)
           [] OTHER -> "good"

\* Dashboard has classified a temperature of exactly 100 as warning.
C22_Witness ==
  /\ metric.type = "temperature"
  /\ metric.value = [t |-> "number", v |-> 100]
  /\ metric.dashboard = "warning"

\* C23: a submission of the login form leaves the session authenticated with
\* the user's role the selected one, makes no call of login, and leaves the
\* session that a submission of any other form with the same selected role
\* would leave, whatever was typed as username and password.
C23_SubmitIgnoresCredentials ==
  [][sessionOp' = "handleSubmit"
       => /\ isAuthenticated'
          /\ user' # Null
          /\ user'.role = form.selectedRole
          /\ loginCalls' = loginCalls
          /\ \A g \in Forms :
               (CanSubmit(g) /\ g.selectedRole = form.selectedRole)
                 => handleSubmitSession(g) = Session']_vars

\* The form was submitted for the role admin with a username and a password
\* that are no demo credentials, and the session is the demo admin's.
C23_Witness ==
  /\ sessionOp = "handleSubmit"
  /\ form.submitted =
       [username |-> "mallory", password |-> "wrong", selectedRole |-> "admin"]
  /\ isAuthenticated
  /\ user = MockUser("admin")
  /\ token = MockToken
  /\ loginCalls = [i \in LoginIds |-> NoCall]

\* C24: the five entities of the component (and lastUpdate) all come from
\* the same pull cycle, or are all still initial.
C24_EntitiesFromOneCycle ==
  \A e1, e2 \in Entities : entities[e1] = entities[e2]

\* Two cycles of Dashboard overlap: the one started second has been applied
\* while the first has some of its responses and waits for the others.
C24_Witness ==
  /\ component = "Dashboard"
  /\ mounted = "mounted"
  /\ cycles[1].st = "pending"
  /\ cycles[1].ok # {}
  /\ cycles[2].st = "applied"
  /\ entities = [e \in Entities |-> 2]

\* The WebSockets that are connecting or open.
C25_Live == {s \in DOMAIN sockets : sockets[s] \in {"connecting", "open"}}

\* C25: while the component is mounted at most one WebSocket is connecting
\* or open, and none while a reconnect is pending; a close schedules exactly
\* one reconnect; and a WebSocket is created only when none is connecting or
\* open.
C25_OneConnection ==
  /\ [](mounted = "mounted" => Cardinality(C25_Live) + reconnectTimers <= 1)
  /\ [][/\ dashOp' = "wsClose" => reconnectTimers' = reconnectTimers + 1
        /\ Len(sockets') > Len(sockets)
             => /\ Len(sockets') = Len(sockets) + 1
                /\ C25_Live = {}]_vars

\* The first connection was closed, one reconnect was made, and the second
\* connection is open with no reconnect pending.
C25_Witness ==
  /\ component = "ComprehensiveDashboard"
  /\ mounted = "mounted"
  /\ dashOp = "wsOpen"
  /\ Len(sockets) = 2
  /\ sockets[1] = "closed"
  /\ sockets[2] = "open"
  /\ reconnectTimers = 0

\* C26: for temperature, soc and voltage the two dashboards give a reading
\* the same status.
C26_SameClassification ==
  (/\ metric.dashboard # NoStatus
   /\ metric.comprehensive # NoStatus
   /\ metric.type \in {"temperature", "soc", "voltage"})
    => metric.dashboard = metric.comprehensive

\* C27: a login that was in flight when logout() was called does not
\* authenticate the session when its response arrives: in the step after a
\* logout in which such a login runs to its end, the session stays
\* unauthenticated.
C27_LogoutOutlivesLogin ==
  [][(/\ sessionOp \in {"logout", "handleLogout"}
      /\ \E i \in LoginIds :
           loginCalls[i].st = "answered" /\ loginCalls'[i].st \in {"success", "failure"})
       => ~isAuthenticated']_vars

\* C28: isAuthenticated is true iff there is a user iff there is a token.
C28_AuthenticatedIffUserIffToken ==
  /\ isAuthenticated <=> (user # Null)
  /\ isAuthenticated <=> (token # NoString)

\* A login had authenticated the session, a logout cleared it, and a login
\* the backend rejected has then run to its end: the session has no user and
\* no token, and an error.
C28_Witness ==
  /\ sessionOp = "loginFailure"
  /\ \E i \in LoginIds : loginCalls[i].st = "success"
  /\ \E i \in LoginIds : loginCalls[i].st = "failure"
  /\ ~isAuthenticated
  /\ user = Null
  /\ token = NoString
  /\ error # NoString

\* C29: when a pull cycle of the mounted Dashboard succeeds, error is null
\* after it, whatever cycles overlapped with it.
C29_ErrorNullAfterSuccess ==
  [][\A c \in CycleIds :
       (mounted = "mounted" /\ cycles[c].st = "pending" /\ cycles'[c].st = "applied")
         => dashError' = NoString]_vars

\* A pull cycle comes to its end in this step.
C30_CycleCompletes ==
  \E c \in CycleIds :
    cycles[c].st \in {"none", "pending"} /\ cycles'[c].st \in {"applied", "failed"}

\* C30: loading is true until a pull cycle has come to its end; the step in
\* which a cycle of the mounted component ends, in success or in failure,
\* leaves it false, and no other step changes it; once false it stays false;
\* and when every request is answered, fails or times out, loading becomes
\* false unless the component is unmounted first.
C30_LoadingEndsOnce ==
  /\ [](dashOp = "init" => loading)
  /\ [][/\ (mounted' = "mounted" /\ C30_CycleCompletes) => ~loading'
        /\ loading' # loading => C30_CycleCompletes
        /\ ~loading => ~loading']_vars
  /\ <>(~loading \/ mounted = "unmounted")

\* The first cycle of Dashboard failed and ended the loading, and a second
\* cycle, started by the timer, has succeeded: loading is still false.
C30_Witness ==
  /\ component = "Dashboard"
  /\ mounted = "mounted"
  /\ dashOp = "applied"
  /\ cycles[1].st = "failed"
  /\ cycles[2].st = "applied"
  /\ ~loading

====
